---- MODULE Spec2Model ----
(***************************************************************************)
(* A model of the modmail relay bot (src/src/lib.rs): the Room Store and   *)
(* the Config Store kept in SQLite, the message router (handle_message /   *)
(* message), the command dispatcher (execute_command /                     *)
(* interaction_create) and the thread-deletion handler (thread_delete).    *)
(*                                                                         *)
(* Every gateway event runs as its own task.  A task is one entry of       *)
(* `tasks`; its `pc` is the next await point of the handler, and each      *)
(* action below is the code between two await points.  Every call to the   *)
(* store or to the transport may fail.  Each task keeps, in `log`, the     *)
(* calls it has issued so far (a history variable).                        *)
(***************************************************************************)
EXTENDS Integers, Sequences, FiniteSets, TLC

VARIABLES
    rooms,       \* table rooms: a set of RawRoom rows
    config,      \* table config: key -> set holding at most one value string
    nextRoomId,  \* the next room_id the store assigns
    nextThread,  \* the next channel id the platform gives a new thread
    grants,      \* the guild's role grants: <<user id, role id>>
    events,      \* number of gateway events received so far
    tasks        \* the handler tasks

vars == <<rooms, config, nextRoomId, nextThread, grants, events, tasks>>

----------------------------------------------------------------------------
(* Bounds and identifiers *)

\* number of gateway events one behaviour receives
MaxEvents == 2

\* the task slots; an event is handled in the first free one
Tasks == {1, 2}

Bot == 10
Users == {11, 12}
Staff == 13
FirstThread == 21
Inbox == 31
General == 32
RoleIds == {41, 42}
Codenames == {"a", "b"}
Keys == {"blockrole", "inbox"}
ManageRoles == "manage_roles"
ManageChannels == "manage_channels"

\* the direct-message channel between the bot and a user
DmChannel(u) == 50 + u

----------------------------------------------------------------------------
(* Identifiers are stored as their decimal strings (a sequence of digits) *)

RECURSIVE to_string(_)
to_string(n) == IF n < 10 THEN <<n>> ELSE to_string(n \div 10) \o <<n % 10>>

RECURSIVE Parse(_)
Parse(s) ==
    IF Len(s) = 0 THEN 0
    ELSE 10 * Parse(SubSeq(s, 1, Len(s) - 1)) + s[Len(s)]

RawRoom(id, codename, channel_id, user_id) ==
    [room_id |-> id, codename |-> codename,
     channel_id |-> channel_id, user_id |-> user_id]

\* TryFrom<RawRoom> for Room
RoomTryFrom(raw) ==
    [room_id |-> raw.room_id, codename |-> raw.codename,
     channel_id |-> Parse(raw.channel_id), user_id |-> Parse(raw.user_id)]

----------------------------------------------------------------------------
(* Texts: a formatted string is the sequence of its fragments *)

BlockedNotice == <<"You have been blocked by a server admin.">>
CodenameReply(codename) == <<"You have been assigned the codename ", codename, ".">>
NoManageRoles == <<"You do not have Manage Roles permission.">>
NoManageChannels == <<"You do not have Manage Channels permission.">>
NoBlockRole == <<"There is no block role defined.">>
NoThread(codename) == <<"No thread with codename ", codename, " found.">>
NotAMember == <<"User is not a member or the server is unavailable.">>
AddRoleFailed == <<"Missing permissions or configured block role is invalid.">>
SetBlockRoleText == <<"Set block role to ", "role.name", ".">>
UnsetBlockRoleText == <<"Unset block role.">>
SetInboxText == <<"Set inbox to ", "channel.id.mention", ".">>
UnsetInboxText == <<"Unset inbox.">>
BlockedText(codename) == <<"Blocked ", codename, ".">>
ClosedText(codename) == <<"Archived ", codename, " and removed attached user.">>
UnimplementedText == <<"You sent an unimplemented command. Please file an issue: ", "/issues">>
InternalText == <<"There was an error processing your command.">>

\* Variant: an internal error is shown with the fault that caused it.
ErrorText_detail(ret) ==
    CASE ret.res = "UserError" -> ret.text
      [] ret.res = "UnknownCommand" -> UnimplementedText
      [] ret.res = "InternalError" -> <<"Internal error: ", "source">>
      [] OTHER -> ret.text

\* Display for BotError: what err.to_string() gives for a returned value
ErrorText(ret) ==
    CASE ret.res = "UserError" -> ret.text
      [] ret.res = "UnknownCommand" -> UnimplementedText
      [] ret.res = "InternalError" -> InternalText
      [] OTHER -> ret.text

----------------------------------------------------------------------------
(* The stores *)

\* Bot::config
ConfigGet(key) == config[key]

\* Bot::get_blockrole, Bot::get_inbox: the stored string parsed back to an id
get_blockrole == {Parse(s) : s \in ConfigGet("blockrole")}
get_inbox == {Parse(s) : s \in ConfigGet("inbox")}

\* Variant: INSERT OR IGNORE, an existing entry keeps its value.
set_config_keep(key, value) ==
    IF config[key] = {} THEN [config EXCEPT ![key] = {value}] ELSE config

\* Variant: a plain INSERT into a table whose key is not unique.
set_config_insert(key, value) == [config EXCEPT ![key] = @ \cup {value}]

\* Bot::set_config: INSERT ... ON CONFLICT (key) DO UPDATE SET value
set_config(key, value) == [config EXCEPT ![key] = {value}]

\* Bot::set_config: res.rows_affected(), the row the upsert inserted or the
\* rows of that key it updated
rows_affected(key) == IF config[key] = {} THEN 1 ELSE Cardinality(config[key])

\* Bot::unset_config: DELETE FROM config WHERE key = ?
unset_config(key) == [config EXCEPT ![key] = {}]

\* Bot::room_from_codename / room_from_channel / room_from_user: the rows a
\* SELECT matches; fetch_optional returns one of them, or None
room_from_codename(codename) ==
    {RoomTryFrom(r) : r \in {x \in rooms : x.codename = codename}}
room_from_channel(channel_id) ==
    {RoomTryFrom(r) : r \in {x \in rooms : x.channel_id = to_string(channel_id)}}
room_from_user(user_id) ==
    {RoomTryFrom(r) : r \in {x \in rooms : x.user_id = to_string(user_id)}}

\* Bot::check_codename_exists
check_codename_exists(codename) == \E r \in rooms : r.codename = codename

\* Variant: a table whose only UNIQUE column is codename.
UniqueViolation_CodenameOnly(row) ==
    \E r \in rooms : r.codename = row.codename

\* table rooms: codename, channel_id and user_id are each UNIQUE
UniqueViolation(row) ==
    \E r \in rooms :
        \/ r.codename = row.codename
        \/ r.channel_id = row.channel_id
        \/ r.user_id = row.user_id

\* table rooms: the store assigns room_id, and never gives the id of a
\* deleted row to a later row
assigned_room_id == nextRoomId

\* Bot::new_room: the row its INSERT adds
new_room(codename, channel_id, user_id) ==
    RawRoom(assigned_room_id, codename, to_string(channel_id), to_string(user_id))

\* Variant: DELETE FROM rooms WHERE room_id >= ?
delete_room_from(room_id) == {r \in rooms : r.room_id < room_id}

\* Variant: DELETE FROM rooms WHERE room_id <= ?
delete_room_through(room_id) == {r \in rooms : r.room_id > room_id}

\* Bot::delete_room: DELETE FROM rooms WHERE room_id = ?
delete_room(room_id) == {r \in rooms : r.room_id # room_id}

----------------------------------------------------------------------------
(* Tasks *)

NoRet == [res |-> "none", text |-> <<>>, some |-> FALSE]
\* Ok(None), Ok(Some(text)) / Ok(text), Err(e)
OkNone == [res |-> "Ok", text |-> <<>>, some |-> FALSE]
OkSome(text) == [res |-> "Ok", text |-> text, some |-> TRUE]
UserError(text) == [res |-> "UserError", text |-> text, some |-> TRUE]
UnknownCommand == [res |-> "UnknownCommand", text |-> <<>>, some |-> TRUE]
InternalError == [res |-> "InternalError", text |-> <<>>, some |-> TRUE]

IdleTask ==
    [pc |-> "idle", kind |-> "none", author |-> 0, private |-> FALSE,
     chan |-> 0, name |-> "", sub |-> "", arg |-> "", argn |-> 0,
     perms |-> {}, role |-> {}, room |-> {}, inbox |-> {}, codename |-> "",
     thread |-> 0, ret |-> NoRet, log |-> <<>>, blk |-> FALSE]

\* one call a task issued: the call, the id and the text it was given, and
\* whether it succeeded
Call(op, n, text, ok) == [op |-> op, n |-> n, text |-> text, ok |-> ok]

Finished(t) == tasks[t].pc \in {"idle", "done", "panicked"}
Free(t) == Finished(t) /\ \A u \in Tasks : u < t => ~Finished(u)

\* the thread channels the platform has created so far
Threads == FirstThread .. (nextThread - 1)

\* has_role: whether the guild member holds the role
has_role(user, role) == <<user, role>> \in grants

\* the user holds the role the Config Store names as block role
BlockedIn(cfg, user) == \E s \in cfg["blockrole"] : has_role(user, Parse(s))
Blocked(user) == BlockedIn(config, user)

\* the user a message is from (private) or would be relayed to (room channel)
Subjects(rec) ==
    IF rec.private THEN {rec.author}
    ELSE {Parse(r.user_id) : r \in {x \in rooms : x.channel_id = to_string(rec.chan)}}

\* History: rec.blk says that the message's user has held the configured
\* block role ever since the message arrived.  A change of the block role
\* that unblocks the user ends it.
Lapse(ts, cfg) ==
    [u \in Tasks |->
        [ts[u] EXCEPT !.blk = @ /\ \E user \in Subjects(ts[u]) :
                                       BlockedIn(cfg, user)]]

Set(t, rec) == tasks' = [tasks EXCEPT ![t] = rec]

Logged(t, call) == Append(tasks[t].log, call)

\* The handler returns `ret` after issuing `calls`, and the event handler
\* finishes the task: message() sends Ok(Some(content)) as a reply to
\* msg.channel_id, interaction_create() sends the result or the error's text
\* as the interaction response, thread_delete() only logs.  A reply that
\* cannot be sent (ok = FALSE) panics the task.  The reply touches nothing
\* the tasks share, so it is taken in the same step as the return.
Final(rec, ret, calls, ok) ==
    LET replies ==
            IF rec.kind = "cmd"
            THEN <<Call("create_interaction_response", rec.author, ErrorText(ret), ok)>>
            ELSE IF rec.kind = "msg" /\ ret.res = "Ok" /\ ret.some
            THEN <<Call("reply", rec.chan, ret.text, ok)>>
            ELSE <<>>
    IN  [rec EXCEPT !.pc = IF replies = <<>> \/ ok THEN "done" ELSE "panicked",
                    !.ret = ret, !.log = rec.log \o calls \o replies]

Finish(t, ret, calls) ==
    \E ok \in BOOLEAN : tasks' = [tasks EXCEPT ![t] = Final(tasks[t], ret, calls, ok)]

StoreSame == UNCHANGED <<rooms, config, nextRoomId>>
WorldSame == UNCHANGED <<nextThread, grants>>

----------------------------------------------------------------------------
(* EventHandler::message and Bot::handle_message *)

\* Variant: the author is not compared with the bot.
message_any_author(t) ==
    /\ Free(t)
    /\ events < MaxEvents
    /\ events' = events + 1
    /\ \E author \in Users \cup {Staff, Bot}, private \in BOOLEAN :
       \E chan \in IF private THEN {DmChannel(u) : u \in Users}
                   ELSE Threads \cup {General} :
          /\ private => (author \in Users /\ chan = DmChannel(author))
                        \/ author = Bot
          /\ ~private => author \in {Staff, Bot}
          /\ Set(t, [IdleTask EXCEPT !.kind = "msg", !.author = author,
                                     !.private = private, !.chan = chan,
                                     !.pc = IF private THEN "get_blockrole"
                                            ELSE "room_from_channel"])
    /\ StoreSame /\ WorldSame

\* A message event arrives.  The code up to the first await: the author is
\* compared with the bot, and the direction is decided.
message(t) ==
    /\ Free(t)
    /\ events < MaxEvents
    /\ events' = events + 1
    /\ \E author \in Users \cup {Staff, Bot}, private \in BOOLEAN :
       \E chan \in IF private THEN {DmChannel(u) : u \in Users}
                   ELSE Threads \cup {General} :
          /\ private => (author \in Users /\ chan = DmChannel(author))
                        \/ author = Bot
          /\ ~private => author \in {Staff, Bot}
          /\ LET m0 == [IdleTask EXCEPT !.kind = "msg", !.author = author,
                                       !.private = private, !.chan = chan,
                                       !.blk = FALSE]
                 m == [m0 EXCEPT !.blk = \E user \in Subjects(m0) :
                                            Blocked(user)]
             IN  Set(t, IF author = Bot
                        THEN Final(m, OkNone, <<>>, TRUE)
                        ELSE [m EXCEPT !.pc = IF private THEN "get_blockrole"
                                              ELSE "room_from_channel"])
    /\ StoreSame /\ WorldSame

\* Variant: the block role is read but not used.
msg_get_blockrole_unused(t) ==
    /\ tasks[t].kind = "msg" /\ tasks[t].pc = "get_blockrole"
    /\ \/ Set(t, [tasks[t] EXCEPT !.pc = "room_from_user",
                     !.log = Logged(t, Call("get_blockrole", 0, <<>>, TRUE))])
       \/ Finish(t, InternalError, <<Call("get_blockrole", 0, <<>>, FALSE)>>)
    /\ UNCHANGED events /\ StoreSame /\ WorldSame

\* self.get_blockrole().await?
msg_get_blockrole(t) ==
    /\ tasks[t].kind = "msg" /\ tasks[t].pc = "get_blockrole"
    /\ \/ LET role == get_blockrole
              next == IF role = {} THEN "room_from_user" ELSE "has_role"
          IN  Set(t, [tasks[t] EXCEPT !.pc = next, !.role = role,
                          !.log = Logged(t, Call("get_blockrole", 0, <<>>, TRUE))])
       \/ Finish(t, InternalError, <<Call("get_blockrole", 0, <<>>, FALSE)>>)
    /\ UNCHANGED events /\ StoreSame /\ WorldSame

\* Variant: a blocked sender is not turned away.
msg_has_role_ignored(t) ==
    /\ tasks[t].kind = "msg" /\ tasks[t].pc = "has_role"
    /\ \/ Set(t, [tasks[t] EXCEPT !.pc = "room_from_user",
                     !.log = Logged(t, Call("has_role", tasks[t].author, <<>>, TRUE))])
       \/ Finish(t, InternalError, <<Call("has_role", tasks[t].author, <<>>, FALSE)>>)
    /\ UNCHANGED events /\ StoreSame /\ WorldSame

\* msg.author.has_role(ctx, self.guild, role).await
msg_has_role(t) ==
    /\ tasks[t].kind = "msg" /\ tasks[t].pc = "has_role"
    /\ \E role \in tasks[t].role :
       \/ LET blocked == has_role(tasks[t].author, role)
              call == Call("has_role", tasks[t].author, <<>>, TRUE)
          IN  IF blocked
              THEN Finish(t, OkSome(BlockedNotice), <<call>>)
              ELSE Set(t, [tasks[t] EXCEPT !.pc = "room_from_user",
                                           !.log = Logged(t, call)])
       \/ Finish(t, InternalError,
                        <<Call("has_role", tasks[t].author, <<>>, FALSE)>>)
    /\ UNCHANGED events /\ StoreSame /\ WorldSame

\* Variant: the room of the user is taken from a copy of the table made at
\* start, not from the store.
msg_room_from_user_cached(t) ==
    /\ tasks[t].kind = "msg" /\ tasks[t].pc = "room_from_user"
    /\ LET found == {RoomTryFrom(r) : r \in {x \in rooms \cup {RawRoom(1, "a", <<2, 1>>, <<1, 1>>)} :
                                                x.user_id = to_string(tasks[t].author)}}
           call == Call("room_from_user", tasks[t].author, <<>>, TRUE)
       IN  \/ /\ found = {}
              /\ Set(t, [tasks[t] EXCEPT !.pc = "get_inbox", !.log = Logged(t, call)])
           \/ \E room \in found :
                 Set(t, [tasks[t] EXCEPT !.pc = "forward", !.room = {room},
                                         !.log = Logged(t, call)])
           \/ Finish(t, InternalError,
                            <<Call("room_from_user", tasks[t].author, <<>>, FALSE)>>)
    /\ UNCHANGED events /\ StoreSame /\ WorldSame

\* self.room_from_user(msg.author.id.0).await?
msg_room_from_user(t) ==
    /\ tasks[t].kind = "msg" /\ tasks[t].pc = "room_from_user"
    /\ LET found == room_from_user(tasks[t].author)
           call == Call("room_from_user", tasks[t].author, <<>>, TRUE)
       IN  \/ /\ found = {}
              /\ Set(t, [tasks[t] EXCEPT !.pc = "get_inbox", !.log = Logged(t, call)])
           \/ \E room \in found :
                 Set(t, [tasks[t] EXCEPT !.pc = "forward", !.room = {room},
                                         !.log = Logged(t, call)])
           \/ Finish(t, InternalError,
                            <<Call("room_from_user", tasks[t].author, <<>>, FALSE)>>)
    /\ UNCHANGED events /\ StoreSame /\ WorldSame

\* Variant: the content is sent to the channel the message came from.
msg_forward_echo(t) ==
    /\ tasks[t].kind = "msg" /\ tasks[t].pc = "forward"
    /\ \E ok \in BOOLEAN :
          Finish(t, IF ok THEN OkNone ELSE InternalError,
                 <<Call("send_message", tasks[t].chan, <<>>, ok)>>)
    /\ UNCHANGED events /\ StoreSame /\ WorldSame

\* room.channel_id.send_message(ctx, content).await, then Ok(None)
msg_forward(t) ==
    /\ tasks[t].kind = "msg" /\ tasks[t].pc = "forward"
    /\ \E room \in tasks[t].room, ok \in BOOLEAN :
          Finish(t, IF ok THEN OkNone ELSE InternalError,
                        <<Call("send_message", room.channel_id, <<>>, ok)>>)
    /\ UNCHANGED events /\ StoreSame /\ WorldSame

\* Variant: without an inbox the user is told so.
msg_get_inbox_notice(t) ==
    /\ tasks[t].kind = "msg" /\ tasks[t].pc = "get_inbox"
    /\ \/ LET inbox == get_inbox
              call == Call("get_inbox", 0, <<>>, TRUE)
          IN  IF inbox = {}
              THEN Finish(t, OkSome(<<"No inbox is configured.">>), <<call>>)
              ELSE Set(t, [tasks[t] EXCEPT !.pc = "codename", !.inbox = inbox,
                                           !.log = Logged(t, call)])
       \/ Finish(t, InternalError, <<Call("get_inbox", 0, <<>>, FALSE)>>)
    /\ UNCHANGED events /\ StoreSame /\ WorldSame

\* self.get_inbox().await?: without an inbox the message is dropped
msg_get_inbox(t) ==
    /\ tasks[t].kind = "msg" /\ tasks[t].pc = "get_inbox"
    /\ \/ LET inbox == get_inbox
              call == Call("get_inbox", 0, <<>>, TRUE)
          IN  IF inbox = {}
              THEN Finish(t, OkNone, <<call>>)
              ELSE Set(t, [tasks[t] EXCEPT !.pc = "codename", !.inbox = inbox,
                                           !.log = Logged(t, call)])
       \/ Finish(t, InternalError, <<Call("get_inbox", 0, <<>>, FALSE)>>)
    /\ UNCHANGED events /\ StoreSame /\ WorldSame

\* Variant: the loop breaks on a candidate that exists.
msg_codename_inverted(t) ==
    /\ tasks[t].kind = "msg" /\ tasks[t].pc = "codename"
    /\ \E candidate \in Codenames :
       \/ Set(t, [tasks[t] EXCEPT
                    !.pc = IF check_codename_exists(candidate)
                           THEN "create_thread" ELSE "codename",
                    !.codename = candidate])
       \/ Finish(t, InternalError,
                        <<Call("check_codename_exists", 0, <<candidate>>, FALSE)>>)
    /\ UNCHANGED events /\ StoreSame /\ WorldSame

\* one turn of the codename loop: petname::petname(2, " "), then
\* check_codename_exists(&candidate).await?
msg_codename(t) ==
    /\ tasks[t].kind = "msg" /\ tasks[t].pc = "codename"
    /\ \E candidate \in Codenames :
       \/ Set(t, [tasks[t] EXCEPT
                    !.pc = IF check_codename_exists(candidate)
                           THEN "codename" ELSE "create_thread",
                    !.codename = candidate])
       \/ Finish(t, InternalError,
                        <<Call("check_codename_exists", 0, <<candidate>>, FALSE)>>)
    /\ UNCHANGED events /\ StoreSame /\ WorldSame

\* inbox.say(..).await, then inbox.create_public_thread(..).await
msg_create_thread(t) ==
    /\ tasks[t].kind = "msg" /\ tasks[t].pc = "create_thread"
    /\ \E inbox \in tasks[t].inbox :
       LET say(ok) == Call("say", inbox, <<>>, ok)
           thread(ok) == Call("create_public_thread", IF ok THEN nextThread ELSE inbox,
                              <<tasks[t].codename>>, ok)
       IN  \/ /\ Set(t, [tasks[t] EXCEPT !.pc = "thread_send", !.thread = nextThread,
                            !.log = tasks[t].log \o <<say(TRUE), thread(TRUE)>>])
              /\ nextThread' = nextThread + 1
           \/ /\ Finish(t, InternalError, <<say(TRUE), thread(FALSE)>>)
              /\ UNCHANGED nextThread
           \/ /\ Finish(t, InternalError, <<say(FALSE)>>)
              /\ UNCHANGED nextThread
    /\ UNCHANGED <<events, grants>> /\ StoreSame

\* Variant: a forward into the new thread that fails is passed over.
msg_thread_send_lenient(t) ==
    /\ tasks[t].kind = "msg" /\ tasks[t].pc = "thread_send"
    /\ \E ok \in BOOLEAN :
          Set(t, [tasks[t] EXCEPT !.pc = "new_room",
                    !.log = Logged(t, Call("send_message", tasks[t].thread, <<>>, ok))])
    /\ UNCHANGED events /\ StoreSame /\ WorldSame

\* thread.send_message(ctx, content).await
msg_thread_send(t) ==
    /\ tasks[t].kind = "msg" /\ tasks[t].pc = "thread_send"
    /\ \E ok \in BOOLEAN :
       LET call == Call("send_message", tasks[t].thread, <<>>, ok)
       IN  IF ok
           THEN Set(t, [tasks[t] EXCEPT !.pc = "new_room", !.log = Logged(t, call)])
           ELSE Finish(t, InternalError, <<call>>)
    /\ UNCHANGED events /\ StoreSame /\ WorldSame

\* Variant: the result of the insert is dropped, and the codename is
\* announced whether or not the room was stored.
msg_new_room_swallow(t) ==
    /\ tasks[t].kind = "msg" /\ tasks[t].pc = "new_room"
    /\ LET row == new_room(tasks[t].codename, tasks[t].thread, tasks[t].author)
           call(ok) == Call("new_room", row.room_id, <<row.codename>>, ok)
       IN  \/ /\ ~UniqueViolation(row)
              /\ rooms' = rooms \cup {row}
              /\ nextRoomId' = nextRoomId + 1
              /\ Finish(t, OkSome(CodenameReply(tasks[t].codename)), <<call(TRUE)>>)
           \/ /\ Finish(t, OkSome(CodenameReply(tasks[t].codename)), <<call(FALSE)>>)
              /\ UNCHANGED <<rooms, nextRoomId>>
    /\ UNCHANGED <<events, config>> /\ WorldSame

\* Variant: the room is stored under the inbox channel, not under the thread.
msg_new_room_inbox(t) ==
    /\ tasks[t].kind = "msg" /\ tasks[t].pc = "new_room"
    /\ \E inbox \in tasks[t].inbox :
       LET row == new_room(tasks[t].codename, inbox, tasks[t].author)
           call(ok) == Call("new_room", row.room_id, <<row.codename>>, ok)
       IN  \/ /\ ~UniqueViolation(row)
              /\ rooms' = rooms \cup {row}
              /\ nextRoomId' = nextRoomId + 1
              /\ Finish(t, OkSome(CodenameReply(tasks[t].codename)), <<call(TRUE)>>)
           \/ /\ Finish(t, InternalError, <<call(FALSE)>>)
              /\ UNCHANGED <<rooms, nextRoomId>>
    /\ UNCHANGED <<events, config>> /\ WorldSame

\* self.new_room(&codename, thread.id.0, msg.author.id.0).await?, then
\* Ok(Some(..codename..)).  The INSERT fails if the store is unavailable or
\* if the row breaks a UNIQUE constraint.
msg_new_room(t) ==
    /\ tasks[t].kind = "msg" /\ tasks[t].pc = "new_room"
    /\ LET row == new_room(tasks[t].codename, tasks[t].thread, tasks[t].author)
           call(ok) == Call("new_room", row.room_id, <<row.codename>>, ok)
       IN  \/ /\ ~UniqueViolation(row)
              /\ rooms' = rooms \cup {row}
              /\ nextRoomId' = nextRoomId + 1
              /\ Finish(t, OkSome(CodenameReply(tasks[t].codename)),
                               <<call(TRUE)>>)
           \/ /\ Finish(t, InternalError, <<call(FALSE)>>)
              /\ UNCHANGED <<rooms, nextRoomId>>
    /\ UNCHANGED <<events, config>> /\ WorldSame

\* Variant: a message in a channel without a room is answered.
msg_room_from_channel_notice(t) ==
    /\ tasks[t].kind = "msg" /\ tasks[t].pc = "room_from_channel"
    /\ LET found == room_from_channel(tasks[t].chan)
           call(ok) == Call("room_from_channel", tasks[t].chan, <<>>, ok)
       IN  \/ /\ found = {}
              /\ Finish(t, OkSome(<<"This channel is not a room.">>), <<call(TRUE)>>)
           \/ \E room \in found :
                 Set(t, [tasks[t] EXCEPT !.pc = "dm", !.room = {room},
                                         !.log = Logged(t, call(TRUE))])
           \/ Finish(t, InternalError, <<call(FALSE)>>)
    /\ UNCHANGED events /\ StoreSame /\ WorldSame

\* self.room_from_channel(msg.channel_id.0).await?
msg_room_from_channel(t) ==
    /\ tasks[t].kind = "msg" /\ tasks[t].pc = "room_from_channel"
    /\ LET found == room_from_channel(tasks[t].chan)
           call(ok) == Call("room_from_channel", tasks[t].chan, <<>>, ok)
       IN  \/ /\ found = {}
              /\ Finish(t, OkNone, <<call(TRUE)>>)
           \/ \E room \in found :
                 Set(t, [tasks[t] EXCEPT !.pc = "dm", !.room = {room},
                                         !.log = Logged(t, call(TRUE))])
           \/ Finish(t, InternalError, <<call(FALSE)>>)
    /\ UNCHANGED events /\ StoreSame /\ WorldSame

\* Variant: the direct message goes to the author of the message.
msg_dm_author(t) ==
    /\ tasks[t].kind = "msg" /\ tasks[t].pc = "dm"
    /\ \E ok \in BOOLEAN :
          Finish(t, IF ok THEN OkNone ELSE InternalError,
                 <<Call("dm", tasks[t].author, <<>>, ok)>>)
    /\ UNCHANGED events /\ StoreSame /\ WorldSame

\* room.user_id.create_dm_channel(ctx).await?.send_message(..).await?
msg_dm(t) ==
    /\ tasks[t].kind = "msg" /\ tasks[t].pc = "dm"
    /\ \E room \in tasks[t].room, ok \in BOOLEAN :
          Finish(t, IF ok THEN OkNone ELSE InternalError,
                        <<Call("dm", room.user_id, <<>>, ok)>>)
    /\ UNCHANGED events /\ StoreSame /\ WorldSame

----------------------------------------------------------------------------
(* EventHandler::interaction_create and Bot::execute_command *)

\* the capability a command needs, and the error without it
Required(name) ==
    IF name \in {"blockrole", "block"} THEN ManageRoles ELSE ManageChannels
Denied(name) ==
    IF name \in {"blockrole", "block"} THEN NoManageRoles ELSE NoManageChannels

\* Variant: the invoker's permissions are not looked at.
Dispatch_unchecked(c) ==
    CASE c.name \notin {"blockrole", "inbox", "block", "close"} ->
            [c EXCEPT !.pc = "reply", !.ret = UnknownCommand]
      [] c.name \in {"blockrole", "inbox"} /\ c.sub = "set" ->
            [c EXCEPT !.pc = "set_config"]
      [] c.name \in {"blockrole", "inbox"} /\ c.sub = "unset" ->
            [c EXCEPT !.pc = "unset_config"]
      [] c.name \in {"blockrole", "inbox"} ->
            [c EXCEPT !.pc = "reply", !.ret = UnknownCommand]
      [] c.name = "block" -> [c EXCEPT !.pc = "block_get_blockrole"]
      [] OTHER -> [c EXCEPT !.pc = "close_room_from_codename"]

\* Variant: an unknown subcommand is reported as a user error.
Dispatch_user_error(c) ==
    CASE c.name \notin {"blockrole", "inbox", "block", "close"} ->
            [c EXCEPT !.pc = "reply", !.ret = UnknownCommand]
      [] c.name \in {"blockrole", "inbox", "block", "close"}
           /\ Required(c.name) \notin c.perms ->
            [c EXCEPT !.pc = "reply", !.ret = UserError(Denied(c.name))]
      [] OTHER ->
            CASE c.name \in {"blockrole", "inbox"} /\ c.sub = "set" ->
                    [c EXCEPT !.pc = "set_config"]
              [] c.name \in {"blockrole", "inbox"} /\ c.sub = "unset" ->
                    [c EXCEPT !.pc = "unset_config"]
              [] c.name \in {"blockrole", "inbox"} ->
                    [c EXCEPT !.pc = "reply",
                              !.ret = UserError(<<"Unknown subcommand.">>)]
              [] c.name = "block" -> [c EXCEPT !.pc = "block_get_blockrole"]
              [] OTHER -> [c EXCEPT !.pc = "close_room_from_codename"]

\* execute_command up to its first await: the permission check and the
\* dispatch on the command and subcommand names
Dispatch(c) ==
    CASE c.name \notin {"blockrole", "inbox", "block", "close"} ->
            [c EXCEPT !.pc = "reply", !.ret = UnknownCommand]
      [] c.name \in {"blockrole", "inbox", "block", "close"}
           /\ Required(c.name) \notin c.perms ->
            [c EXCEPT !.pc = "reply", !.ret = UserError(Denied(c.name))]
      [] OTHER ->
            CASE c.name \in {"blockrole", "inbox"} /\ c.sub = "set" ->
                    [c EXCEPT !.pc = "set_config"]
              [] c.name \in {"blockrole", "inbox"} /\ c.sub = "unset" ->
                    [c EXCEPT !.pc = "unset_config"]
              [] c.name \in {"blockrole", "inbox"} ->
                    [c EXCEPT !.pc = "reply", !.ret = UnknownCommand]
              [] c.name = "block" -> [c EXCEPT !.pc = "block_get_blockrole"]
              [] OTHER -> [c EXCEPT !.pc = "close_room_from_codename"]

\* A command invocation arrives.
interaction_create(t) ==
    /\ Free(t)
    /\ events < MaxEvents
    /\ events' = events + 1
    /\ \E name \in {"blockrole", "inbox", "block", "close", "other"},
          perms \in {{ManageRoles}, {ManageChannels}} :
       \E sub \in IF name \in {"blockrole", "inbox"}
                  THEN {"set", "unset", "other"} ELSE {""} :
       \E argn \in IF sub # "set" THEN {0}
                   ELSE IF name = "blockrole" THEN RoleIds ELSE {Inbox},
          arg \in IF name \in {"block", "close"} THEN Codenames ELSE {""} :
       \E ok \in BOOLEAN :
       LET c == Dispatch([IdleTask EXCEPT !.kind = "cmd", !.name = name,
                            !.sub = sub, !.arg = arg, !.argn = argn,
                            !.perms = perms, !.author = Staff])
       IN  Set(t, IF c.pc = "reply" THEN Final(c, c.ret, <<>>, ok) ELSE c)
    /\ StoreSame /\ WorldSame

\* blockrole set / inbox set: self.set_blockrole(role).await? and
\* self.set_inbox(channel).await?; set_config asserts that the upsert
\* affected one row
cmd_set_config(t) ==
    /\ tasks[t].kind = "cmd" /\ tasks[t].pc = "set_config"
    /\ LET call(ok) == Call("set_config", tasks[t].argn, <<tasks[t].name>>, ok)
           text == IF tasks[t].name = "blockrole" THEN SetBlockRoleText
                   ELSE SetInboxText
       IN  \/ /\ rows_affected(tasks[t].name) = 1
              /\ config' = set_config(tasks[t].name, to_string(tasks[t].argn))
              /\ \E ok \in BOOLEAN :
                    tasks' = Lapse([tasks EXCEPT ![t] =
                                      Final(tasks[t], OkSome(text), <<call(TRUE)>>, ok)],
                                   config')
           \/ /\ rows_affected(tasks[t].name) # 1
              /\ config' = set_config(tasks[t].name, to_string(tasks[t].argn))
              /\ tasks' = Lapse([tasks EXCEPT ![t] =
                                   [tasks[t] EXCEPT !.pc = "panicked",
                                                    !.log = Logged(t, call(TRUE))]],
                                config')
           \/ /\ Finish(t, InternalError, <<call(FALSE)>>)
              /\ UNCHANGED config
    /\ UNCHANGED <<events, rooms, nextRoomId>> /\ WorldSame

\* blockrole unset / inbox unset
cmd_unset_config(t) ==
    /\ tasks[t].kind = "cmd" /\ tasks[t].pc = "unset_config"
    /\ LET call(ok) == Call("unset_config", 0, <<tasks[t].name>>, ok)
           text == IF tasks[t].name = "blockrole" THEN UnsetBlockRoleText
                   ELSE UnsetInboxText
       IN  \/ /\ config' = unset_config(tasks[t].name)
              /\ \E ok \in BOOLEAN :
                    tasks' = Lapse([tasks EXCEPT ![t] =
                                      Final(tasks[t], OkSome(text), <<call(TRUE)>>, ok)],
                                   config')
           \/ /\ Finish(t, InternalError, <<call(FALSE)>>)
              /\ UNCHANGED config
    /\ UNCHANGED <<events, rooms, nextRoomId>> /\ WorldSame

\* Variant: without a configured block role the command goes on with role 41.
block_get_blockrole_default(t) ==
    /\ tasks[t].kind = "cmd" /\ tasks[t].pc = "block_get_blockrole"
    /\ LET role == IF get_blockrole = {} THEN {41} ELSE get_blockrole
           call(ok) == Call("get_blockrole", 0, <<>>, ok)
       IN  \/ Set(t, [tasks[t] EXCEPT !.pc = "block_room_from_codename",
                              !.role = role, !.log = Logged(t, call(TRUE))])
           \/ Finish(t, InternalError, <<call(FALSE)>>)
    /\ UNCHANGED events /\ StoreSame /\ WorldSame

\* block: self.get_blockrole().await, an unset role is a user error
block_get_blockrole(t) ==
    /\ tasks[t].kind = "cmd" /\ tasks[t].pc = "block_get_blockrole"
    /\ LET role == get_blockrole
           call(ok) == Call("get_blockrole", 0, <<>>, ok)
       IN  \/ IF role = {}
              THEN Finish(t, UserError(NoBlockRole), <<call(TRUE)>>)
              ELSE Set(t, [tasks[t] EXCEPT !.pc = "block_room_from_codename",
                              !.role = role, !.log = Logged(t, call(TRUE))])
           \/ Finish(t, InternalError, <<call(FALSE)>>)
    /\ UNCHANGED events /\ StoreSame /\ WorldSame

\* block: self.room_from_codename(codename).await
block_room_from_codename(t) ==
    /\ tasks[t].kind = "cmd" /\ tasks[t].pc = "block_room_from_codename"
    /\ LET found == room_from_codename(tasks[t].arg)
           call(ok) == Call("room_from_codename", 0, <<tasks[t].arg>>, ok)
       IN  \/ /\ found = {}
              /\ Finish(t, UserError(NoThread(tasks[t].arg)), <<call(TRUE)>>)
           \/ \E room \in found :
                 Set(t, [tasks[t] EXCEPT !.pc = "block_member", !.room = {room},
                                         !.log = Logged(t, call(TRUE))])
           \/ Finish(t, InternalError, <<call(FALSE)>>)
    /\ UNCHANGED events /\ StoreSame /\ WorldSame

\* block: self.guild.member(ctx, room.user_id).await
block_member(t) ==
    /\ tasks[t].kind = "cmd" /\ tasks[t].pc = "block_member"
    /\ \E room \in tasks[t].room :
       LET call(ok) == Call("member", room.user_id, <<>>, ok)
       IN  \/ Set(t, [tasks[t] EXCEPT !.pc = "block_add_role",
                                      !.log = Logged(t, call(TRUE))])
           \/ Finish(t, UserError(NotAMember), <<call(FALSE)>>)
    /\ UNCHANGED events /\ StoreSame /\ WorldSame

\* Variant: the role is granted to every user, not only to the room's user.
block_add_role_everyone(t) ==
    /\ tasks[t].kind = "cmd" /\ tasks[t].pc = "block_add_role"
    /\ \E room \in tasks[t].room, role \in tasks[t].role :
       LET call(ok) == Call("add_role", room.user_id, <<>>, ok)
       IN  \/ /\ grants' = grants \cup {<<u, role>> : u \in Users}
              /\ Finish(t, OkSome(BlockedText(tasks[t].arg)), <<call(TRUE)>>)
           \/ /\ Finish(t, UserError(AddRoleFailed), <<call(FALSE)>>)
              /\ UNCHANGED grants
    /\ UNCHANGED <<events, nextThread>> /\ StoreSame

\* block: member.add_role(ctx, role).await
block_add_role(t) ==
    /\ tasks[t].kind = "cmd" /\ tasks[t].pc = "block_add_role"
    /\ \E room \in tasks[t].room, role \in tasks[t].role :
       LET call(ok) == Call("add_role", room.user_id, <<>>, ok)
       IN  \/ /\ grants' = grants \cup {<<room.user_id, role>>}
              /\ Finish(t, OkSome(BlockedText(tasks[t].arg)), <<call(TRUE)>>)
           \/ /\ Finish(t, UserError(AddRoleFailed), <<call(FALSE)>>)
              /\ UNCHANGED grants
    /\ UNCHANGED <<events, nextThread>> /\ StoreSame

\* Variant: closing a codename that has no room reports success.
close_room_from_codename_lenient(t) ==
    /\ tasks[t].kind = "cmd" /\ tasks[t].pc = "close_room_from_codename"
    /\ LET found == room_from_codename(tasks[t].arg)
           call(ok) == Call("room_from_codename", 0, <<tasks[t].arg>>, ok)
       IN  \/ /\ found = {}
              /\ Finish(t, OkSome(ClosedText(tasks[t].arg)), <<call(TRUE)>>)
           \/ \E room \in found :
                 Set(t, [tasks[t] EXCEPT !.pc = "close_edit_thread", !.room = {room},
                                         !.log = Logged(t, call(TRUE))])
           \/ Finish(t, InternalError, <<call(FALSE)>>)
    /\ UNCHANGED events /\ StoreSame /\ WorldSame

\* close: self.room_from_codename(codename).await
close_room_from_codename(t) ==
    /\ tasks[t].kind = "cmd" /\ tasks[t].pc = "close_room_from_codename"
    /\ LET found == room_from_codename(tasks[t].arg)
           call(ok) == Call("room_from_codename", 0, <<tasks[t].arg>>, ok)
       IN  \/ /\ found = {}
              /\ Finish(t, UserError(NoThread(tasks[t].arg)), <<call(TRUE)>>)
           \/ \E room \in found :
                 Set(t, [tasks[t] EXCEPT !.pc = "close_edit_thread", !.room = {room},
                                         !.log = Logged(t, call(TRUE))])
           \/ Finish(t, InternalError, <<call(FALSE)>>)
    /\ UNCHANGED events /\ StoreSame /\ WorldSame

\* Variant: a failed archive ends the command with an internal error.
close_edit_thread_strict(t) ==
    /\ tasks[t].kind = "cmd" /\ tasks[t].pc = "close_edit_thread"
    /\ \E room \in tasks[t].room :
       LET call(ok) == Call("edit_thread", room.channel_id, <<>>, ok)
       IN  \/ Set(t, [tasks[t] EXCEPT !.pc = "close_delete_room",
                                      !.log = Logged(t, call(TRUE))])
           \/ Finish(t, InternalError, <<call(FALSE)>>)
    /\ UNCHANGED events /\ StoreSame /\ WorldSame

\* close: let _ = room.channel_id.edit_thread(ctx, archived).await
close_edit_thread(t) ==
    /\ tasks[t].kind = "cmd" /\ tasks[t].pc = "close_edit_thread"
    /\ \E room \in tasks[t].room, ok \in BOOLEAN :
          Set(t, [tasks[t] EXCEPT !.pc = "close_delete_room",
                    !.log = Logged(t, Call("edit_thread", room.channel_id, <<>>, ok))])
    /\ UNCHANGED events /\ StoreSame /\ WorldSame

\* close: self.delete_room(room.room_id).await?
close_delete_room(t) ==
    /\ tasks[t].kind = "cmd" /\ tasks[t].pc = "close_delete_room"
    /\ \E room \in tasks[t].room :
       LET call(ok) == Call("delete_room", room.room_id, <<>>, ok)
       IN  \/ /\ rooms' = delete_room(room.room_id)
              /\ Finish(t, OkSome(ClosedText(tasks[t].arg)), <<call(TRUE)>>)
           \/ /\ Finish(t, InternalError, <<call(FALSE)>>)
              /\ UNCHANGED rooms
    /\ UNCHANGED <<events, config, nextRoomId>> /\ WorldSame

----------------------------------------------------------------------------
(* EventHandler::thread_delete *)

\* A thread-deletion event arrives.
thread_delete(t) ==
    /\ Free(t)
    /\ events < MaxEvents
    /\ events' = events + 1
    /\ \E chan \in Threads \cup {General} :
          Set(t, [IdleTask EXCEPT !.kind = "del", !.chan = chan,
                                  !.pc = "room_from_channel"])
    /\ StoreSame /\ WorldSame

\* self.room_from_channel(thread.id.0).await
del_room_from_channel(t) ==
    /\ tasks[t].kind = "del" /\ tasks[t].pc = "room_from_channel"
    /\ LET found == room_from_channel(tasks[t].chan)
           call(ok) == Call("room_from_channel", tasks[t].chan, <<>>, ok)
       IN  \/ /\ found = {}
              /\ Finish(t, OkNone, <<call(TRUE)>>)
           \/ \E room \in found :
                 Set(t, [tasks[t] EXCEPT !.pc = "delete_room", !.room = {room},
                                         !.log = Logged(t, call(TRUE))])
           \/ Finish(t, InternalError, <<call(FALSE)>>)
    /\ UNCHANGED events /\ StoreSame /\ WorldSame

\* Variant: a delete that fails is reported to the room's user.
del_delete_room_notify(t) ==
    /\ tasks[t].kind = "del" /\ tasks[t].pc = "delete_room"
    /\ \E room \in tasks[t].room :
       LET call(ok) == Call("delete_room", room.room_id, <<>>, ok)
       IN  \/ /\ rooms' = delete_room(room.room_id)
              /\ Finish(t, OkNone, <<call(TRUE)>>)
           \/ /\ Finish(t, InternalError,
                         <<call(FALSE), Call("dm", room.user_id, InternalText, TRUE)>>)
              /\ UNCHANGED rooms
    /\ UNCHANGED <<events, config, nextRoomId>> /\ WorldSame

\* self.delete_room(room.room_id).await; an error is only logged
del_delete_room(t) ==
    /\ tasks[t].kind = "del" /\ tasks[t].pc = "delete_room"
    /\ \E room \in tasks[t].room :
       LET call(ok) == Call("delete_room", room.room_id, <<>>, ok)
       IN  \/ /\ rooms' = delete_room(room.room_id)
              /\ Finish(t, OkNone, <<call(TRUE)>>)
           \/ /\ Finish(t, InternalError, <<call(FALSE)>>)
              /\ UNCHANGED rooms
    /\ UNCHANGED <<events, config, nextRoomId>> /\ WorldSame

----------------------------------------------------------------------------

\* The stores outlive the process, so a run starts from a store an earlier
\* run left behind: a fresh install, a configured one, one with an open room,
\* and one whose open room belongs to a blocked user while a second user
\* holds the block role without having a room.
Room1 == RawRoom(1, "a", to_string(FirstThread), to_string(11))

Starts ==
    {[config |-> [k \in Keys |-> {}], rooms |-> {}, grants |-> {}],
     [config |-> [k \in Keys |-> {to_string(IF k = "inbox" THEN Inbox ELSE 41)}],
      rooms |-> {}, grants |-> {}],
     [config |-> [k \in Keys |-> {to_string(IF k = "inbox" THEN Inbox ELSE 41)}],
      rooms |-> {Room1}, grants |-> {}],
     [config |-> [k \in Keys |-> {to_string(IF k = "inbox" THEN Inbox ELSE 41)}],
      rooms |-> {Room1}, grants |-> {<<11, 41>>, <<12, 41>>}]}

Init ==
    /\ \E s \in Starts :
          /\ config = s.config
          /\ rooms = s.rooms
          /\ grants = s.grants
          /\ nextRoomId = Cardinality(s.rooms) + 1
          /\ nextThread = FirstThread + Cardinality(s.rooms)
    /\ events = 0
    /\ tasks = [t \in Tasks |-> IdleTask]

Next ==
    \E t \in Tasks :
        \/ message(t)
        \/ msg_get_blockrole(t)
        \/ msg_has_role(t)
        \/ msg_room_from_user(t)
        \/ msg_forward(t)
        \/ msg_get_inbox(t)
        \/ msg_codename(t)
        \/ msg_create_thread(t)
        \/ msg_thread_send(t)
        \/ msg_new_room(t)
        \/ msg_room_from_channel(t)
        \/ msg_dm(t)
        \/ interaction_create(t)
        \/ cmd_set_config(t)
        \/ cmd_unset_config(t)
        \/ block_get_blockrole(t)
        \/ block_room_from_codename(t)
        \/ block_member(t)
        \/ block_add_role(t)
        \/ close_room_from_codename(t)
        \/ close_edit_thread(t)
        \/ close_delete_room(t)
        \/ thread_delete(t)
        \/ del_room_from_channel(t)
        \/ del_delete_room(t)

Spec == Init /\ [][Next]_vars

\* The steps of the handler task t after its event has arrived.
Handle(t) ==
    \/ msg_get_blockrole(t) \/ msg_has_role(t) \/ msg_room_from_user(t)
    \/ msg_forward(t) \/ msg_get_inbox(t) \/ msg_codename(t)
    \/ msg_create_thread(t) \/ msg_thread_send(t) \/ msg_new_room(t)
    \/ msg_room_from_channel(t) \/ msg_dm(t)
    \/ cmd_set_config(t) \/ cmd_unset_config(t)
    \/ block_get_blockrole(t) \/ block_room_from_codename(t)
    \/ block_member(t) \/ block_add_role(t)
    \/ close_room_from_codename(t) \/ close_edit_thread(t) \/ close_delete_room(t)
    \/ del_room_from_channel(t) \/ del_delete_room(t)

\* The runtime keeps polling every handler task it has spawned, and every
\* call a handler awaits returns, with a result or with an error: a handler
\* that can take a step takes it.  Events need not arrive.
FairSpec == Spec /\ \A t \in Tasks : WF_vars(Handle(t))

\* A turn of the codename loop of task t that draws candidate c.
Pick(t, c) == msg_codename(t) /\ tasks'[t].codename = c

\* Fair sampling: a loop that keeps turning draws every codename again and
\* again.
SampleSpec == FairSpec /\ \A t \in Tasks, c \in Codenames : WF_vars(Pick(t, c))

----------------------------------------------------------------------------
(* Reading a task's history *)

\* the names of the calls task t issued, in order
Ops(t) == [i \in 1 .. Len(tasks[t].log) |-> tasks[t].log[i].op]

\* the calls of one kind task t issued
CallsOf(t, op) == {i \in 1 .. Len(tasks[t].log) : tasks[t].log[i].op = op}

\* every call task t issued succeeded
AllOk(t) == \A i \in 1 .. Len(tasks[t].log) : tasks[t].log[i].ok

\* this step is a step of task t
Stepped(t) == tasks'[t].pc # tasks[t].pc \/ tasks'[t].log # tasks[t].log

PrivateMsg(t) == tasks[t].kind = "msg" /\ tasks[t].private /\ tasks[t].author # Bot
ChannelMsg(t) == tasks[t].kind = "msg" /\ ~tasks[t].private /\ tasks[t].author # Bot

\* the calls of the router that only read
Reads == {"get_blockrole", "has_role", "room_from_user", "get_inbox",
          "room_from_channel", "check_codename_exists"}

AllSame == UNCHANGED <<rooms, config, nextRoomId, nextThread, grants>>

----------------------------------------------------------------------------
(* Claims *)

\* C1: in every reachable state no two live rooms share a codename, a
\* channel_id or a user_id.
C1_Unique ==
    \A r1, r2 \in rooms :
        (\/ r1.codename = r2.codename
         \/ r1.channel_id = r2.channel_id
         \/ r1.user_id = r2.user_id) => r1 = r2

\* two rooms are live, one of them opened by a task of this run
C1_Witness ==
    /\ Cardinality(rooms) = 2
    /\ \E t \in Tasks : \E i \in CallsOf(t, "new_room") : tasks[t].log[i].ok

\* C2: a handler that reaches the insert of a new room while the user already
\* has a room (the other first message won the race) has its insert
\* rejected: the Room Store is unchanged, the handler ends with an internal
\* error, no reply is sent, and the task ends normally, so that the next
\* event can be handled.  No user ever has two rooms.
C2_SecondCreateRejected ==
    /\ [](\A u \in Users : Cardinality(room_from_user(u)) <= 1)
    /\ [](\A t \in Tasks :
            tasks[t].kind = "msg" /\ tasks[t].ret.res = "InternalError"
                => tasks[t].pc = "done" /\ Finished(t) /\ CallsOf(t, "reply") = {})
    /\ [][\A t \in Tasks :
            (/\ PrivateMsg(t) /\ tasks[t].pc = "new_room" /\ Stepped(t)
             /\ room_from_user(tasks[t].author) # {})
            => /\ rooms' = rooms
               /\ tasks'[t].ret = InternalError
               /\ tasks'[t].pc = "done"
               /\ tasks'[t].log = Append(tasks[t].log, Call("new_room", nextRoomId,
                                                            <<tasks[t].codename>>, FALSE))]_vars

\* both tasks handled a first message of the same user; both found no room;
\* one insert succeeded and the other was rejected
C2_Witness ==
    \E t, u \in Tasks :
        /\ t # u /\ PrivateMsg(t) /\ PrivateMsg(u)
        /\ tasks[t].author = tasks[u].author
        /\ \E i \in CallsOf(t, "new_room") : tasks[t].log[i].ok
        /\ \E i \in CallsOf(u, "new_room") : ~tasks[u].log[i].ok
        /\ tasks[u].ret = InternalError
        /\ Cardinality(room_from_user(tasks[u].author)) = 1

\* C3: a private message of a user who is not blocked and has no room, with
\* an inbox configured and no call failing, is handled by exactly the calls
\* of the new-room path: one thread is created, one room is inserted and one
\* reply, which contains the codename, goes to the user.  The insert adds
\* exactly one row; it links the author to the thread this task created, and
\* its codename was not in the store.
C3_NewRoomPath(t) ==
    LET head == IF tasks[t].role = {} THEN <<"get_blockrole">>
                ELSE <<"get_blockrole", "has_role">>
        n == Len(tasks[t].log)
    IN  /\ Ops(t) = head \o <<"room_from_user", "get_inbox", "say",
                              "create_public_thread", "send_message", "new_room",
                              "reply">>
        /\ tasks[t].log[n - 3].n = tasks[t].thread
        /\ tasks[t].log[n - 2].n = tasks[t].thread
        /\ tasks[t].log[n - 1].text = <<tasks[t].codename>>
        /\ tasks[t].log[n].n = DmChannel(tasks[t].author)
        /\ tasks[t].log[n].text = CodenameReply(tasks[t].codename)
        /\ \E i \in 1 .. Len(tasks[t].log[n].text) :
              tasks[t].log[n].text[i] = tasks[t].codename
        /\ tasks[t].ret = OkSome(CodenameReply(tasks[t].codename))

C3_NewRoom ==
    /\ [](\A t \in Tasks :
            (PrivateMsg(t) /\ Finished(t) /\ tasks[t].inbox # {} /\ AllOk(t))
                => C3_NewRoomPath(t))
    /\ [][\A t \in Tasks :
            (PrivateMsg(t) /\ tasks[t].pc = "new_room" /\ Stepped(t)
             /\ tasks'[t].ret.res = "Ok")
            => \E row \in rooms' :
                  /\ row \notin rooms
                  /\ rooms' = rooms \cup {row}
                  /\ Parse(row.user_id) = tasks[t].author
                  /\ Parse(row.channel_id) = tasks[t].thread
                  /\ tasks[t].thread \notin {Inbox, General, tasks[t].chan}
                  /\ \A r \in rooms : Parse(r.channel_id) # tasks[t].thread
                  /\ row.codename = tasks[t].codename
                  /\ \A r \in rooms : r.codename # row.codename]_vars

\* a task went through the new-room path without a failing call, while
\* another room was already in the store
C3_Witness ==
    \E t \in Tasks :
        /\ PrivateMsg(t) /\ Finished(t) /\ tasks[t].inbox # {} /\ AllOk(t)
        /\ Cardinality(rooms) = 2
        /\ \E r \in rooms : Parse(r.user_id) = tasks[t].author
                            /\ r.codename = tasks[t].codename

\* C4: a private message of a user without a room, with no inbox configured,
\* is dropped: the handler has issued only reads, returns Ok(None) and sends
\* no reply; no step it took changed the stores, created a thread or granted
\* a role.
C4_Dropped(t) ==
    /\ tasks[t].pc = "done"
    /\ tasks[t].ret = OkNone
    /\ \A i \in 1 .. Len(tasks[t].log) : tasks[t].log[i].op \in Reads
    /\ tasks[t].thread = 0

C4_NoInboxDrop ==
    /\ [](\A t \in Tasks :
            (/\ PrivateMsg(t) /\ Finished(t) /\ tasks[t].inbox = {}
             /\ \E i \in CallsOf(t, "get_inbox") : tasks[t].log[i].ok)
            => C4_Dropped(t))
    /\ [][\A t \in Tasks :
            (/\ PrivateMsg(t) /\ Stepped(t)
             /\ tasks[t].pc \in {"get_blockrole", "has_role", "room_from_user", "get_inbox"})
            => AllSame]_vars
    /\ [][\A t \in Tasks :
            (PrivateMsg(t) /\ tasks[t].pc = "get_inbox" /\ Stepped(t) /\ get_inbox = {}
             /\ tasks'[t].ret.res # "InternalError")
            => tasks'[t].inbox = {} /\ tasks'[t].pc = "done"]_vars

\* a message was dropped for want of an inbox
C4_Witness ==
    \E t \in Tasks :
        /\ PrivateMsg(t) /\ Finished(t) /\ tasks[t].inbox = {}
        /\ \E i \in CallsOf(t, "get_inbox") : tasks[t].log[i].ok
        /\ room_from_user(tasks[t].author) = {}
        /\ get_inbox = {}

\* C5: a private message of a user who is not blocked and has a room is
\* sent to the channel_id of the room the store holds for that user, and to
\* no other channel; the handler issues nothing else after the lookup, sends
\* no reply and changes no store.  The inbox is not read.
C5_Forwarded(t) ==
    LET head == IF tasks[t].role = {} THEN <<"get_blockrole">>
                ELSE <<"get_blockrole", "has_role">>
        n == Len(tasks[t].log)
    IN  /\ Ops(t) = head \o <<"room_from_user", "send_message">>
        /\ \A room \in tasks[t].room :
              /\ room.user_id = tasks[t].author
              /\ tasks[t].log[n].n = room.channel_id
        /\ tasks[t].ret = IF tasks[t].log[n].ok THEN OkNone ELSE InternalError
        /\ tasks[t].pc = "done"
        /\ tasks[t].inbox = {}

C5_UserToChannel ==
    /\ [](\A t \in Tasks :
            (PrivateMsg(t) /\ Finished(t) /\ tasks[t].room # {}) => C5_Forwarded(t))
    /\ [][\A t \in Tasks :
            (PrivateMsg(t) /\ tasks[t].pc = "room_from_user" /\ Stepped(t)
             /\ tasks'[t].ret.res # "InternalError")
            => /\ (\E r \in rooms : Parse(r.user_id) = tasks[t].author)
                    <=> tasks'[t].pc = "forward"
               /\ \A room \in tasks'[t].room :
                     \E r \in rooms : /\ Parse(r.user_id) = tasks[t].author
                                      /\ Parse(r.channel_id) = room.channel_id
                                      /\ r.room_id = room.room_id]_vars
    /\ [][\A t \in Tasks :
            (PrivateMsg(t) /\ tasks[t].pc \in {"room_from_user", "forward"} /\ Stepped(t))
            => AllSame]_vars

\* a message was forwarded to its room while no inbox was configured
C5_Witness ==
    \E t \in Tasks :
        /\ PrivateMsg(t) /\ Finished(t) /\ tasks[t].room # {} /\ AllOk(t)
        /\ get_inbox = {}
        /\ \E r \in rooms : Parse(r.user_id) = tasks[t].author

\* C6: a message that someone other than the bot sends in the channel of a
\* room is sent as a direct message to the user_id of the room the store
\* holds for that channel, and to no other user; the handler sends no reply
\* and changes no store.
C6_Relayed(t) ==
    /\ Ops(t) = <<"room_from_channel", "dm">>
    /\ \A room \in tasks[t].room :
          /\ room.channel_id = tasks[t].chan
          /\ tasks[t].log[2].n = room.user_id
    /\ tasks[t].ret = IF tasks[t].log[2].ok THEN OkNone ELSE InternalError
    /\ tasks[t].pc = "done"

C6_ChannelToUser ==
    /\ [](\A t \in Tasks :
            (ChannelMsg(t) /\ Finished(t) /\ tasks[t].room # {}) => C6_Relayed(t))
    /\ [][\A t \in Tasks :
            (ChannelMsg(t) /\ tasks[t].pc = "room_from_channel" /\ Stepped(t)
             /\ tasks'[t].ret.res # "InternalError")
            => /\ (\E r \in rooms : Parse(r.channel_id) = tasks[t].chan)
                    <=> tasks'[t].pc = "dm"
               /\ \A room \in tasks'[t].room :
                     \E r \in rooms : /\ Parse(r.channel_id) = tasks[t].chan
                                      /\ Parse(r.user_id) = room.user_id]_vars
    /\ [][\A t \in Tasks : (ChannelMsg(t) /\ Stepped(t)) => AllSame]_vars

\* a staff message was relayed to the user of the room
C6_Witness ==
    \E t \in Tasks :
        /\ ChannelMsg(t) /\ Finished(t) /\ tasks[t].room # {} /\ AllOk(t)
        /\ \E r \in rooms : /\ Parse(r.channel_id) = tasks[t].chan
                            /\ Parse(r.user_id) = tasks[t].log[2].n

\* C7: a message in a channel that is not the channel_id of any room is a
\* no-op: the handler issues the lookup and nothing else, returns Ok(None),
\* sends no reply and changes no store.
C7_Ignored ==
    /\ [](\A t \in Tasks :
            (ChannelMsg(t) /\ Finished(t) /\ tasks[t].room = {} /\ AllOk(t))
            => /\ Ops(t) = <<"room_from_channel">>
               /\ tasks[t].ret = OkNone
               /\ tasks[t].pc = "done")
    /\ [][\A t \in Tasks :
            (ChannelMsg(t) /\ tasks[t].pc = "room_from_channel" /\ Stepped(t)
             /\ room_from_channel(tasks[t].chan) = {})
            => /\ tasks'[t].pc = "done"
               /\ tasks'[t].ret \in {OkNone, InternalError}
               /\ Len(tasks'[t].log) = 1
               /\ AllSame]_vars

\* a message in the thread of a room that was deleted was ignored
C7_Witness ==
    \E t \in Tasks :
        /\ ChannelMsg(t) /\ Finished(t) /\ tasks[t].room = {} /\ AllOk(t)
        /\ tasks[t].chan = FirstThread
        /\ room_from_channel(FirstThread) = {}

\* C8: when the handler of a private message finds that the sender holds the
\* block role it read from the Config Store, it returns the blocked notice
\* and stops: its calls are get_blockrole, has_role and one reply with the
\* notice; no room is looked up, nothing is forwarded, no room or thread is
\* created and no store changes.
C8_Refused(t) ==
    /\ Ops(t) = <<"get_blockrole", "has_role", "reply">>
    /\ tasks[t].log[3].text = BlockedNotice
    /\ tasks[t].log[3].n = DmChannel(tasks[t].author)
    /\ tasks[t].room = {}
    /\ tasks[t].thread = 0

C8_Blocked ==
    /\ [](\A t \in Tasks :
            (PrivateMsg(t) /\ Finished(t) /\ tasks[t].ret = OkSome(BlockedNotice))
            => C8_Refused(t))
    /\ [][\A t \in Tasks :
            (/\ PrivateMsg(t) /\ tasks[t].pc = "has_role" /\ Stepped(t)
             /\ \E role \in tasks[t].role : has_role(tasks[t].author, role)
             /\ tasks'[t].ret.res # "InternalError")
            => /\ tasks'[t].ret = OkSome(BlockedNotice)
               /\ tasks'[t].pc \in {"done", "panicked"}
               /\ AllSame]_vars

\* two blocked senders were turned away, one with a room and one without
C8_Witness ==
    \E t, u \in Tasks :
        /\ PrivateMsg(t) /\ Finished(t) /\ tasks[t].ret = OkSome(BlockedNotice)
        /\ PrivateMsg(u) /\ Finished(u) /\ tasks[u].ret = OkSome(BlockedNotice)
        /\ room_from_user(tasks[t].author) # {}
        /\ room_from_user(tasks[u].author) = {}

\* C9 as stated: while the user of a message has held the configured block
\* role since the message arrived, the message is relayed in neither
\* direction.
C9_NoRelayEitherWay ==
    \A t \in Tasks :
        (tasks[t].kind = "msg" /\ tasks[t].author # Bot /\ tasks[t].blk)
        => \A i \in 1 .. Len(tasks[t].log) :
              tasks[t].log[i].op \in {"send_message", "dm"} => ~tasks[t].log[i].ok

\* C9 amended: while the author of a private message has held the configured
\* block role since the message arrived, the message is not forwarded to any
\* channel and opens no room.
C9_NoRelayFromBlockedUser ==
    \A t \in Tasks :
        (PrivateMsg(t) /\ tasks[t].blk)
        => /\ \A i \in 1 .. Len(tasks[t].log) :
                 tasks[t].log[i].op \notin
                    {"send_message", "say", "create_public_thread", "new_room"}
           /\ tasks[t].pc \notin {"room_from_user", "forward", "get_inbox", "codename",
                                  "create_thread", "thread_send", "new_room"}

\* a blocked user who has a room wrote, and was turned away
C9_Witness ==
    \E t \in Tasks :
        /\ PrivateMsg(t) /\ tasks[t].blk /\ Finished(t)
        /\ tasks[t].ret = OkSome(BlockedNotice)
        /\ room_from_user(tasks[t].author) # {}

\* C10: a message whose author is the bot is ignored, private or not: its
\* task ends on arrival with Ok(None), has issued no call, and the arrival
\* changes no store.
C10_OwnMessages ==
    /\ [](\A t \in Tasks :
            (tasks[t].kind = "msg" /\ tasks[t].author = Bot)
            => /\ tasks[t].pc = "done"
               /\ tasks[t].log = <<>>
               /\ tasks[t].ret = OkNone
               /\ tasks[t].room = {})
    /\ [][\A t \in Tasks :
            (/\ Free(t) /\ events' # events
             /\ tasks'[t].kind = "msg" /\ tasks'[t].author = Bot)
            => /\ tasks'[t].pc = "done"
               /\ tasks'[t].log = <<>>
               /\ AllSame]_vars

\* a message of the bot in the channel of a room (such as one it forwarded
\* there) was ignored
C10_Witness ==
    \E t \in Tasks :
        /\ tasks[t].kind = "msg" /\ tasks[t].author = Bot /\ ~tasks[t].private
        /\ room_from_channel(tasks[t].chan) # {}
        /\ Finished(t)

\* C11: a blockrole (set, unset or any other subcommand), inbox, block or
\* close command whose invoker lacks the capability it needs (manage-roles
\* for blockrole and block, manage-channels for inbox and close) ends on
\* arrival with the user error that names the missing permission: its only
\* call is the response carrying that text, and its arrival changes neither
\* the Config Store, the Room Store nor the role grants.
C11_Lacks(rec) ==
    /\ rec.kind = "cmd"
    /\ \/ rec.name \in {"blockrole", "block"} /\ ManageRoles \notin rec.perms
       \/ rec.name \in {"inbox", "close"} /\ ManageChannels \notin rec.perms

C11_Text(rec) ==
    IF rec.name \in {"blockrole", "block"}
    THEN <<"You do not have Manage Roles permission.">>
    ELSE <<"You do not have Manage Channels permission.">>

C11_Unauthorized ==
    /\ [](\A t \in Tasks :
            C11_Lacks(tasks[t])
            => /\ Finished(t)
               /\ tasks[t].ret = UserError(C11_Text(tasks[t]))
               /\ Ops(t) = <<"create_interaction_response">>
               /\ tasks[t].log[1].text = C11_Text(tasks[t])
               /\ tasks[t].log[1].n = tasks[t].author
               /\ tasks[t].room = {} /\ tasks[t].role = {})
    /\ [][\A t \in Tasks :
            (Free(t) /\ events' # events /\ C11_Lacks(tasks'[t])) => AllSame]_vars

\* a close of an open room was turned away for want of manage-channels, and
\* the room is still in the store
C11_Witness ==
    \E t \in Tasks :
        /\ C11_Lacks(tasks[t]) /\ tasks[t].name = "close"
        /\ ManageRoles \in tasks[t].perms
        /\ room_from_codename(tasks[t].arg) # {}

\* C12: when a close command (its invoker holds manage-channels) looks up
\* its codename and the store holds no room with it, the command ends with
\* the user error "No thread with codename .. found": it has archived no
\* channel and issued no delete, and the Room Store is unchanged.
C12_Rejected(t) ==
    /\ Ops(t) = <<"room_from_codename", "create_interaction_response">>
    /\ tasks[t].log[1].text = <<tasks[t].arg>>
    /\ tasks[t].log[2].text = <<"No thread with codename ", tasks[t].arg, " found.">>
    /\ tasks[t].room = {}

C12_CloseUnknown ==
    /\ [](\A t \in Tasks :
            (tasks[t].kind = "cmd" /\ tasks[t].name = "close"
             /\ tasks[t].ret.res = "UserError" /\ ManageChannels \in tasks[t].perms)
            => C12_Rejected(t))
    /\ [][\A t \in Tasks :
            (/\ tasks[t].kind = "cmd" /\ tasks[t].pc = "close_room_from_codename"
             /\ Stepped(t)
             /\ \A r \in rooms : r.codename # tasks[t].arg)
            => /\ ManageChannels \in tasks[t].perms
               /\ tasks'[t].pc \in {"done", "panicked"}
               /\ tasks'[t].log[1].ok => tasks'[t].ret.res = "UserError"
               /\ AllSame]_vars

\* a close of a codename that no room has was rejected while another room
\* was open, and that room is still there
C12_Witness ==
    \E t \in Tasks :
        /\ tasks[t].kind = "cmd" /\ tasks[t].name = "close"
        /\ tasks[t].ret.res = "UserError" /\ ManageChannels \in tasks[t].perms
        /\ rooms # {}
        /\ \A r \in rooms : r.codename # tasks[t].arg

\* C13: when a block command (its invoker holds manage-roles) reads the
\* block role and none is configured, the command ends with the user error
\* "There is no block role defined", whatever its codename: no room is
\* looked up, no member is fetched, no role is granted and no store changes.
C13_Rejected(t) ==
    /\ Ops(t) = <<"get_blockrole", "create_interaction_response">>
    /\ tasks[t].log[2].text = <<"There is no block role defined.">>
    /\ tasks[t].room = {} /\ tasks[t].role = {}

C13_BlockUnconfigured ==
    /\ [](\A t \in Tasks :
            (tasks[t].kind = "cmd" /\ tasks[t].name = "block"
             /\ tasks[t].ret = UserError(NoBlockRole))
            => C13_Rejected(t))
    /\ [][\A t \in Tasks :
            (/\ tasks[t].kind = "cmd" /\ tasks[t].pc = "block_get_blockrole"
             /\ Stepped(t)
             /\ config["blockrole"] = {})
            => /\ ManageRoles \in tasks[t].perms
               /\ tasks'[t].pc \in {"done", "panicked"}
               /\ tasks'[t].log[1].ok
                    => tasks'[t].ret = UserError(<<"There is no block role defined.">>)
               /\ AllSame]_vars

\* a block of the codename of an open room was rejected for want of a block
\* role; the room's user was granted nothing
C13_Witness ==
    \E t \in Tasks :
        /\ tasks[t].kind = "cmd" /\ tasks[t].name = "block"
        /\ tasks[t].ret = UserError(NoBlockRole)
        /\ \E r \in rooms : r.codename = tasks[t].arg
                            /\ \A role \in RoleIds : ~has_role(Parse(r.user_id), role)

\* C14: a close command (its invoker holds manage-channels) that found a
\* room with its codename goes on to the delete whether the archive of the
\* room's channel succeeded or failed, and a delete that the store carries
\* out ends the command with the success text.  The delete removes the row
\* with the room_id that was looked up, and nothing else; when that row was
\* still in the store, no room with its codename, its channel_id or its
\* user_id is in the store afterwards.
C14_Closed(t) ==
    /\ Ops(t) = <<"room_from_codename", "edit_thread", "delete_room",
                  "create_interaction_response">>
    /\ \A room \in tasks[t].room :
          /\ room.codename = tasks[t].arg
          /\ tasks[t].log[2].n = room.channel_id
          /\ tasks[t].log[3].n = room.room_id
    /\ tasks[t].ret = OkSome(<<"Archived ", tasks[t].arg, " and removed attached user.">>)
    /\ tasks[t].log[4].text = tasks[t].ret.text

C15_BlockedPath(t) ==
    /\ Ops(t) = <<"get_blockrole", "room_from_codename", "member", "add_role",
                  "create_interaction_response">>
    /\ \A i \in 1 .. 4 : tasks[t].log[i].ok
    /\ \A room \in tasks[t].room :
          /\ room.codename = tasks[t].arg
          /\ tasks[t].log[3].n = room.user_id
          /\ tasks[t].log[4].n = room.user_id
    /\ tasks[t].log[5].text = <<"Blocked ", tasks[t].arg, ".">>

C15_BlockGrants ==
    /\ [](\A t \in Tasks :
            (tasks[t].kind = "cmd" /\ tasks[t].name = "block" /\ tasks[t].ret.res = "Ok")
            => C15_BlockedPath(t))
    /\ [][\A t \in Tasks :
            (/\ tasks[t].kind = "cmd" /\ tasks[t].name = "block"
             /\ ~Finished(t) /\ Stepped(t))
            => /\ UNCHANGED <<rooms, config, nextRoomId, nextThread>>
               /\ tasks[t].pc = "block_get_blockrole" /\ tasks'[t].role # {}
                    => tasks'[t].role = {Parse(s) : s \in config["blockrole"]}
               /\ tasks[t].pc = "block_room_from_codename"
                    => \A room \in tasks'[t].room :
                          \E r \in rooms : /\ r.codename = tasks[t].arg
                                           /\ Parse(r.user_id) = room.user_id
               /\ tasks'[t].ret.res = "Ok"
                    => \E room \in tasks[t].room, role \in tasks[t].role :
                          /\ grants' = grants \cup {<<room.user_id, role>>}
                          /\ tasks[t].room = {room} /\ tasks[t].role = {role}
               /\ tasks'[t].ret.res # "Ok" => grants' = grants]_vars

\* a block succeeded: the room's user holds the configured block role, the
\* other user holds no role, and the room is still in the store
C15_Witness ==
    \E t \in Tasks :
        /\ tasks[t].kind = "cmd" /\ tasks[t].name = "block" /\ tasks[t].ret.res = "Ok"
        /\ \E r \in rooms :
              /\ r.codename = tasks[t].arg
              /\ Blocked(Parse(r.user_id))
              /\ \A u \in Users \ {Parse(r.user_id)}, role \in RoleIds : ~has_role(u, role)

\* C16: deleting the same room twice is safe.  Every delete that a close
\* command or a thread deletion issues, and that the store carries out,
\* leaves exactly the rows with another room_id and ends the handler without
\* an error; when the row is already gone (another handler that looked up
\* the same room deleted it first) the delete changes nothing and still
\* returns no error.  A handler task stops abnormally only when its reply
\* cannot be sent, and a thread deletion never does.
C16_AtDelete(t) ==
    \/ tasks[t].kind = "cmd" /\ tasks[t].pc = "close_delete_room"
    \/ tasks[t].kind = "del" /\ tasks[t].pc = "delete_room"

C16_DoubleDelete ==
    /\ [](\A t \in Tasks :
            tasks[t].pc = "panicked"
            => /\ tasks[t].kind # "del"
               /\ tasks[t].log[Len(tasks[t].log)].op
                     \in {"create_interaction_response", "reply"}
               /\ ~tasks[t].log[Len(tasks[t].log)].ok)
    /\ [](\A t, u \in Tasks :
            (/\ t # u
             /\ \E i \in CallsOf(t, "delete_room"), j \in CallsOf(u, "delete_room") :
                   /\ tasks[t].log[i].ok /\ tasks[u].log[j].ok
                   /\ tasks[t].log[i].n = tasks[u].log[j].n)
            => tasks[t].ret.res = "Ok" /\ tasks[u].ret.res = "Ok")
    /\ [][\A t \in Tasks :
            (C16_AtDelete(t) /\ Stepped(t))
            => \A room \in tasks[t].room :
                  LET call == tasks'[t].log[Len(tasks[t].log) + 1]
                  IN  /\ call.op = "delete_room" /\ call.n = room.room_id
                      /\ call.ok => /\ rooms' = {r \in rooms : r.room_id # room.room_id}
                                    /\ tasks'[t].ret.res = "Ok"
                      /\ ~call.ok => rooms' = rooms
                      /\ (\A r \in rooms : r.room_id # room.room_id) => rooms' = rooms
                      /\ tasks[t].kind = "del" => tasks'[t].pc = "done"
                      /\ UNCHANGED <<config, grants, nextRoomId, nextThread>>]_vars

\* a close command and a thread deletion both looked up the same room and
\* both deleted it: both ended without an error, and the room is gone
C16_Witness ==
    \E t, u \in Tasks :
        /\ tasks[t].kind = "cmd" /\ tasks[u].kind = "del"
        /\ tasks[t].room # {} /\ tasks[t].room = tasks[u].room
        /\ \E i \in CallsOf(t, "delete_room") : tasks[t].log[i].ok
        /\ \E j \in CallsOf(u, "delete_room") : tasks[u].log[j].ok
        /\ tasks[t].ret.res = "Ok" /\ tasks[u].ret.res = "Ok"
        /\ \A room \in tasks[t].room, r \in rooms : r.room_id # room.room_id

\* C17: the handler of a thread deletion issues a lookup by the deleted
\* channel and at most one delete, and nothing else: no reply, no message,
\* and it never stops abnormally.  If the lookup finds a room, the handler
\* goes on to delete it, and a delete the store carries out leaves no room
\* with that channel_id; the only rows a step of the handler removes are
\* rows of that channel.  If the store holds no room of that channel (none
\* ever existed, or the event is a repeat) the step changes nothing.  The
\* Config Store and the role grants are never changed.
C17_ThreadDeleted ==
    /\ [](\A t \in Tasks :
            tasks[t].kind = "del"
            => /\ tasks[t].pc # "panicked"
               /\ Len(tasks[t].log) <= 2
               /\ Ops(t) = SubSeq(<<"room_from_channel", "delete_room">>,
                                  1, Len(tasks[t].log))
               /\ \A i \in 1 .. Len(tasks[t].log) :
                     tasks[t].log[i].op \notin
                        {"reply", "dm", "send_message", "say", "create_interaction_response"}
               /\ \A room \in tasks[t].room : room.channel_id = tasks[t].chan
               /\ (Finished(t) /\ AllOk(t)) => tasks[t].ret = OkNone)
    /\ [][\A t \in Tasks :
            (tasks[t].kind = "del" /\ ~Finished(t) /\ Stepped(t))
            => LET call == tasks'[t].log[Len(tasks[t].log) + 1]
                   here == {r \in rooms : Parse(r.channel_id) = tasks[t].chan}
               IN  /\ UNCHANGED <<config, grants, nextRoomId, nextThread>>
                   /\ rooms' \subseteq rooms
                   /\ rooms \ rooms' \subseteq here
                   /\ here = {} => rooms' = rooms
                   /\ (tasks[t].pc = "room_from_channel" /\ call.ok)
                        => (here # {} <=> tasks'[t].pc = "delete_room")
                   /\ (tasks[t].pc = "delete_room" /\ call.ok)
                        => \A r \in rooms' : Parse(r.channel_id) # tasks[t].chan
                   /\ Len(tasks'[t].log) = Len(tasks[t].log) + 1]_vars

\* the deletion of a room's thread was notified twice: one handler deleted
\* the room, the other found none and did nothing
C17_Witness ==
    \E t, u \in Tasks :
        /\ tasks[t].kind = "del" /\ tasks[u].kind = "del"
        /\ tasks[t].chan = tasks[u].chan
        /\ Ops(t) = <<"room_from_channel", "delete_room">> /\ AllOk(t)
        /\ Ops(u) = <<"room_from_channel">> /\ AllOk(u)
        /\ Finished(t) /\ Finished(u)
        /\ room_from_channel(tasks[t].chan) = {}

\* C18: the Config Store under set and unset.  A set the store carries out
\* makes get(key) return the value set, whether or not the key had a value;
\* an unset the store carries out makes get(key) absent, and succeeds and
\* changes nothing when the key was absent already; neither changes the
\* other key; a set or unset that fails changes nothing; and no other step
\* of the program changes the Config Store.  So, after any sequence of sets
\* and unsets, get(key) is the value of the last set on that key that no
\* unset on that key followed, and otherwise absent.
C18_Get(key) == IF key = "blockrole" THEN get_blockrole ELSE get_inbox

C18_ConfigSetUnset ==
    /\ [][\A t \in Tasks :
            (tasks[t].kind = "cmd" /\ tasks[t].pc = "set_config" /\ Stepped(t))
            => LET key == tasks[t].name
                   call == tasks'[t].log[Len(tasks[t].log) + 1]
               IN  /\ call.op = "set_config" /\ call.text = <<key>>
                   /\ call.ok => /\ C18_Get(key)' = {tasks[t].argn}
                                 /\ tasks'[t].ret.res = "Ok"
                   /\ ~call.ok => config' = config /\ tasks'[t].ret = InternalError
                   /\ \A k \in Keys \ {key} : config'[k] = config[k]]_vars
    /\ [][\A t \in Tasks :
            (tasks[t].kind = "cmd" /\ tasks[t].pc = "unset_config" /\ Stepped(t))
            => LET key == tasks[t].name
                   call == tasks'[t].log[Len(tasks[t].log) + 1]
               IN  /\ call.op = "unset_config" /\ call.text = <<key>>
                   /\ call.ok => /\ C18_Get(key)' = {}
                                 /\ tasks'[t].ret.res = "Ok"
                   /\ ~call.ok => config' = config /\ tasks'[t].ret = InternalError
                   /\ C18_Get(key) = {} => config' = config
                   /\ \A k \in Keys \ {key} : config'[k] = config[k]]_vars
    /\ [][config' # config
            => \E t \in Tasks :
                  /\ tasks[t].kind = "cmd" /\ Stepped(t)
                  /\ tasks[t].pc \in {"set_config", "unset_config"}]_vars

\* the block role was unset twice, the second time while it was absent:
\* both commands succeeded, and the inbox still has its value
C18_Witness ==
    \E t, u \in Tasks :
        /\ t # u
        /\ tasks[t].kind = "cmd" /\ tasks[u].kind = "cmd"
        /\ tasks[t].name = "blockrole" /\ tasks[u].name = "blockrole"
        /\ \E i \in CallsOf(t, "unset_config") : tasks[t].log[i].ok
        /\ \E j \in CallsOf(u, "unset_config") : tasks[u].log[j].ok
        /\ tasks[t].ret.res = "Ok" /\ tasks[u].ret.res = "Ok"
        /\ get_blockrole = {} /\ get_inbox = {Inbox}

\* C19: in every reachable state the Config Store holds at most one entry
\* per key.  A set finds its upsert to have affected exactly one row, so
\* that its assertion never fails: no command stops at it.  Right after a
\* set the store carried out, the key has exactly one entry, also when two
\* set commands on the same key are under way together.
C19_OneEntryPerKey ==
    /\ [](\A k \in Keys : Cardinality(config[k]) <= 1)
    /\ [](\A t \in Tasks :
            (tasks[t].kind = "cmd" /\ tasks[t].pc = "set_config")
            => rows_affected(tasks[t].name) = 1)
    /\ [](\A t \in Tasks :
            (tasks[t].kind = "cmd" /\ tasks[t].pc = "panicked")
            => tasks[t].log[Len(tasks[t].log)].op # "set_config")
    /\ [][\A t \in Tasks :
            (/\ tasks[t].kind = "cmd" /\ tasks[t].pc = "set_config" /\ Stepped(t)
             /\ tasks'[t].log[Len(tasks[t].log) + 1].ok)
            => Cardinality(config'[tasks[t].name]) = 1]_vars

\* two set commands on the block role ran together with different roles:
\* both succeeded, and the store holds one entry, the role of one of them
C19_Witness ==
    \E t, u \in Tasks :
        /\ t # u
        /\ tasks[t].kind = "cmd" /\ tasks[u].kind = "cmd"
        /\ tasks[t].name = "blockrole" /\ tasks[u].name = "blockrole"
        /\ tasks[t].argn # tasks[u].argn
        /\ \E i \in CallsOf(t, "set_config") : tasks[t].log[i].ok
        /\ \E j \in CallsOf(u, "set_config") : tasks[u].log[j].ok
        /\ Cardinality(config["blockrole"]) = 1
        /\ get_blockrole = {tasks[u].argn}

\* C20: every command invocation is answered once.  A command whose handler
\* is under way has sent no response, and it comes to its end; at its end it
\* has sent exactly one response, as its last call and to the invoker.  The
\* text of the response is the success text for Ok, the text of the user
\* error as it was raised, the unimplemented notice for an unknown command,
\* and for an internal error the one fixed message, whatever call failed;
\* the texts of the four kinds differ.
C20_SuccessTexts ==
    {<<"Set block role to ", "role.name", ".">>, <<"Unset block role.">>,
     <<"Set inbox to ", "channel.id.mention", ".">>, <<"Unset inbox.">>}
    \cup {<<"Blocked ", c, ".">> : c \in Codenames}
    \cup {<<"Archived ", c, " and removed attached user.">> : c \in Codenames}

C20_UserTexts ==
    {NoManageRoles, NoManageChannels, NoBlockRole, NotAMember, AddRoleFailed}
    \cup {NoThread(c) : c \in Codenames}

C20_Generic == <<"There was an error processing your command.">>

C20_Answer(t) ==
    LET n == Len(tasks[t].log)
        text == tasks[t].log[n].text
    IN  /\ n >= 1
        /\ CallsOf(t, "create_interaction_response") = {n}
        /\ tasks[t].log[n].n = tasks[t].author
        /\ tasks[t].pc = IF tasks[t].log[n].ok THEN "done" ELSE "panicked"
        /\ tasks[t].ret.res \in {"Ok", "UserError", "UnknownCommand", "InternalError"}
        /\ tasks[t].ret.res = "Ok"
              => text = tasks[t].ret.text /\ text \in C20_SuccessTexts
                 /\ \A i \in 1 .. n - 1 : tasks[t].log[i].ok
                                             \/ tasks[t].log[i].op = "edit_thread"
        /\ tasks[t].ret.res = "UserError"
              => text = tasks[t].ret.text /\ text \in C20_UserTexts
        /\ tasks[t].ret.res = "UnknownCommand"
              => text = UnimplementedText
                 /\ (tasks[t].name = "other" \/ tasks[t].sub = "other")
        /\ tasks[t].ret.res = "InternalError"
              => text = C20_Generic /\ n >= 2 /\ ~tasks[t].log[n - 1].ok

\* the number of awaits a command has before it at most
C20_Left(rec) ==
    CASE rec.pc \in {"block_get_blockrole"} -> 4
      [] rec.pc \in {"block_room_from_codename", "close_room_from_codename"} -> 3
      [] rec.pc \in {"block_member", "close_edit_thread"} -> 2
      [] rec.pc \in {"set_config", "unset_config", "block_add_role",
                     "close_delete_room"} -> 1
      [] OTHER -> 0

C20_OneReply ==
    /\ [](\A t \in Tasks :
            tasks[t].kind = "cmd"
            => IF Finished(t) THEN C20_Answer(t)
               ELSE /\ CallsOf(t, "create_interaction_response") = {}
                    /\ tasks[t].ret = NoRet
                    /\ C20_Left(tasks[t]) > 0
                    /\ ENABLED Handle(t))
    /\ [][\A t \in Tasks :
            (tasks[t].kind = "cmd" /\ ~Finished(t) /\ Stepped(t))
            => /\ tasks'[t].kind = "cmd"
               /\ C20_Left(tasks'[t]) < C20_Left(tasks[t])]_vars
    /\ [](/\ C20_SuccessTexts \cap C20_UserTexts = {}
          /\ {UnimplementedText, C20_Generic}
                \cap (C20_SuccessTexts \cup C20_UserTexts) = {}
          /\ UnimplementedText # C20_Generic)
    /\ \A t \in Tasks :
          (tasks[t].kind = "cmd" /\ ~Finished(t)) ~> (tasks[t].kind = "cmd" /\ Finished(t))

\* a close whose delete failed was answered with the generic message, and a
\* blockrole set that went through with its success text
C20_Witness ==
    \E t, u \in Tasks :
        /\ tasks[t].kind = "cmd" /\ tasks[t].name = "close" /\ Finished(t)
        /\ tasks[t].ret = InternalError
        /\ Ops(t)[Len(tasks[t].log) - 1] = "delete_room"
        /\ tasks[u].kind = "cmd" /\ tasks[u].name = "blockrole" /\ Finished(u)
        /\ tasks[u].ret.res = "Ok"

\* a command whose name, or whose subcommand, the dispatcher does not know
C21_Unknown(rec) ==
    /\ rec.kind = "cmd"
    /\ \/ rec.name \notin {"blockrole", "inbox", "block", "close"}
       \/ rec.name \in {"blockrole", "inbox"} /\ rec.sub \notin {"set", "unset"}

\* C21 as stated: every command with an unknown name or subcommand ends with
\* the unimplemented failure.
C21_AlwaysUnimplemented ==
    \A t \in Tasks :
        (C21_Unknown(tasks[t]) /\ Finished(t)) => tasks[t].ret.res = "UnknownCommand"

\* C21 amended: a command with an unknown name, and a blockrole or inbox
\* command with an unknown subcommand whose invoker holds the capability of
\* the command, ends on arrival with the unimplemented failure, which is
\* neither a user error nor an internal error and whose text differs from
\* theirs; its only call is the response with the unimplemented notice, and
\* its arrival changes neither the Config Store nor the Room Store.
C21_Unimplemented ==
    /\ [](\A t \in Tasks :
            (/\ C21_Unknown(tasks[t])
             /\ \/ tasks[t].name \notin {"blockrole", "inbox"}
                \/ tasks[t].name = "blockrole" /\ ManageRoles \in tasks[t].perms
                \/ tasks[t].name = "inbox" /\ ManageChannels \in tasks[t].perms)
            => /\ Finished(t)
               /\ tasks[t].ret.res = "UnknownCommand"
               /\ tasks[t].ret.res \notin {"UserError", "InternalError", "Ok"}
               /\ Ops(t) = <<"create_interaction_response">>
               /\ tasks[t].log[1].text =
                     <<"You sent an unimplemented command. Please file an issue: ",
                       "/issues">>
               /\ tasks[t].log[1].text # InternalText
               /\ tasks[t].log[1].text \notin C20_UserTexts)
    /\ [](\A t \in Tasks :
            (tasks[t].kind = "cmd" /\ tasks[t].ret.res = "UnknownCommand")
            => C21_Unknown(tasks[t]))
    /\ [][\A t \in Tasks :
            (Free(t) /\ events' # events /\ C21_Unknown(tasks'[t])) => AllSame]_vars

\* an inbox command with an unknown subcommand, from an invoker who holds
\* manage-channels, got the unimplemented notice while the store was in use
C21_Witness ==
    \E t \in Tasks :
        /\ C21_Unknown(tasks[t]) /\ tasks[t].name = "inbox"
        /\ ManageChannels \in tasks[t].perms
        /\ tasks[t].ret.res = "UnknownCommand"
        /\ rooms # {} /\ get_inbox # {}

\* the calls of task t that come after its read of the inbox
C22_Tail(t) ==
    LET at == CallsOf(t, "get_inbox")
        from == IF at = {} THEN Len(tasks[t].log) + 1
                ELSE (CHOOSE i \in at : TRUE) + 1
    IN  SubSeq(tasks[t].log, from, Len(tasks[t].log))

C22_Steps == <<"say", "create_public_thread", "send_message", "new_room", "reply">>

\* C22: in the new-room path the calls come in the order: announcement and
\* creation of the thread, named with the codename chosen before; forward of
\* the message into that thread; insert of the room; reply with the
\* codename.  Each of them is issued only after the ones before it have
\* succeeded, so a call that fails is the last call of the handler, which
\* ends with an internal error and without a reply.  The step that sends
\* the reply is the step that has put the room into the store.
C22_InOrder(t) ==
    LET tail == C22_Tail(t)
        n == Len(tail)
    IN  \/ n = 1 /\ tail[1].op = "check_codename_exists" /\ ~tail[1].ok
                 /\ tasks[t].ret = InternalError /\ tasks[t].thread = 0
        \/ /\ n <= 5
           /\ \A i \in 1 .. n : tail[i].op = C22_Steps[i]
           /\ \A i \in 1 .. n - 1 : tail[i].ok
           /\ n >= 1 => tasks[t].codename \in Codenames
           /\ n >= 2 => tail[2].text = <<tasks[t].codename>>
           /\ (n >= 2 /\ tail[2].ok) => tail[2].n = tasks[t].thread
           /\ n >= 3 => tail[3].n = tasks[t].thread
           /\ n >= 4 => tail[4].text = <<tasks[t].codename>>
           /\ n = 5 => tail[5].text = CodenameReply(tasks[t].codename)
           /\ (n >= 1 /\ n <= 4 /\ ~tail[n].ok)
                => /\ tasks[t].ret = InternalError
                   /\ tasks[t].pc = "done"
           /\ (n >= 1 /\ n <= 4 /\ tail[n].ok)
                => tasks[t].pc = <<"create_thread", "thread_send", "new_room", "none">>[n]

C22_NewRoomOrder ==
    /\ [](\A t \in Tasks :
            (PrivateMsg(t) /\ tasks[t].inbox # {}) => C22_InOrder(t))
    /\ [](\A t \in Tasks :
            (PrivateMsg(t) /\ tasks[t].ret.res = "InternalError")
            => CallsOf(t, "reply") = {})
    /\ [][\A t \in Tasks :
            (PrivateMsg(t) /\ ~Finished(t) /\ Stepped(t)
             /\ CallsOf(t, "reply") = {}
             /\ \E i \in 1 .. Len(tasks'[t].log) : tasks'[t].log[i].op = "reply"
             /\ tasks'[t].ret # OkSome(BlockedNotice))
            => /\ tasks[t].pc = "new_room"
               /\ \E r \in rooms' \ rooms :
                     /\ r.codename = tasks[t].codename
                     /\ Parse(r.channel_id) = tasks[t].thread
                     /\ Parse(r.user_id) = tasks[t].author]_vars

\* one handler went through the whole path, and another created its thread
\* but failed to forward into it and stopped there
C22_Witness ==
    \E t, u \in Tasks :
        /\ PrivateMsg(t) /\ Len(C22_Tail(t)) = 5 /\ AllOk(t)
        /\ PrivateMsg(u) /\ Len(C22_Tail(u)) = 3 /\ ~C22_Tail(u)[3].ok
        /\ Finished(u)

\* C23: a block command resolves the room by its codename before it reads
\* the block role: its first call is the lookup of the room, and when it
\* ends with a user error while no room has its codename and no block role
\* is configured, the error is the unknown-codename error.
C23_CodenameFirst ==
    /\ [](\A t \in Tasks :
            (tasks[t].kind = "cmd" /\ tasks[t].name = "block"
             /\ CallsOf(t, "get_blockrole") # {})
            => tasks[t].log[1].op = "room_from_codename")
    /\ [][\A t \in Tasks :
            (/\ tasks[t].kind = "cmd" /\ tasks[t].name = "block"
             /\ ~Finished(t) /\ Stepped(t)
             /\ \A r \in rooms : r.codename # tasks[t].arg
             /\ config["blockrole"] = {}
             /\ tasks'[t].ret.res = "UserError")
            => tasks'[t].ret =
                  UserError(<<"No thread with codename ", tasks[t].arg, " found.">>)]_vars

\* the codenames of the rooms in the store
C24_Used == {r.codename : r \in rooms}

C24_InLoop(t) == PrivateMsg(t) /\ tasks[t].pc = "codename"

\* C24: a turn of the codename loop draws a candidate and checks it against
\* the Room Store; the loop ends with the candidate exactly when the check
\* finds no room with that codename at that time, and turns again when it
\* finds one (a check that fails ends the handler with an internal error).
\* A turn changes no store.  While some codename is unused the loop can end
\* at once, and under fair sampling a loop that runs while a codename is
\* unused ends, unless the other handlers use up every codename first.
C24_CodenameLoop ==
    /\ [][\A t \in Tasks :
            (C24_InLoop(t) /\ Stepped(t))
            => /\ tasks'[t].pc \in {"codename", "create_thread", "done"}
               /\ tasks'[t].pc = "create_thread"
                    => tasks'[t].codename \in Codenames \ C24_Used
               /\ tasks'[t].pc = "codename" => tasks'[t].codename \in C24_Used
               /\ tasks'[t].pc = "done"
                    => /\ tasks'[t].ret = InternalError
                       /\ tasks'[t].codename = tasks[t].codename
               /\ AllSame]_vars
    /\ [](\A t \in Tasks :
            (C24_InLoop(t) /\ Codenames \ C24_Used # {})
            => ENABLED (msg_codename(t) /\ tasks'[t].pc = "create_thread"))
    /\ \A t \in Tasks :
          (C24_InLoop(t) /\ Codenames \ C24_Used # {})
             ~> (~C24_InLoop(t) \/ Codenames \ C24_Used = {})

\* the loop ended with the one codename that no room had
C24_Witness ==
    \E t \in Tasks :
        /\ PrivateMsg(t) /\ tasks[t].pc = "create_thread"
        /\ C24_Used # {}
        /\ Codenames \ C24_Used = {tasks[t].codename}

\* task t is about to forward: it has looked its room up and not yet sent
C25_AtForward(t) ==
    \/ PrivateMsg(t) /\ tasks[t].pc = "forward"
    \/ ChannelMsg(t) /\ tasks[t].pc = "dm"

\* the store holds a room that links the user and the channel
C25_Linked(user, channel) ==
    \E r \in rooms : Parse(r.user_id) = user /\ Parse(r.channel_id) = channel

C26_NoThreadWithoutRoom ==
    [][\A t \in Tasks :
          (/\ PrivateMsg(t) /\ tasks[t].pc = "new_room" /\ Stepped(t)
           /\ \E i \in CallsOf(t, "send_message") :
                 tasks[t].log[i].ok /\ tasks[t].log[i].n = tasks[t].thread)
          => (Finished(t)' => C25_Linked(tasks[t].author, tasks[t].thread)')]_vars

\* C27: a close command or a thread-deletion handler removes at most the one
\* room it looked up.  At every step of such a handler, from its lookup to
\* its end, no row is added, the Config Store is unchanged, and a row that
\* leaves the Room Store is the row the handler found: it has the room_id the
\* handler deletes by, it is the same row as at lookup time (the given
\* codename for close, the deleted channel for a thread deletion), and it is
\* the only one.  Every other room stays, whatever other handlers deleted or
\* created since the lookup.
C27_Removing(t) ==
    \/ /\ tasks[t].kind = "cmd"
       /\ tasks[t].pc \in {"close_room_from_codename", "close_edit_thread",
                           "close_delete_room"}
    \/ /\ tasks[t].kind = "del"
       /\ tasks[t].pc \in {"room_from_channel", "delete_room"}

C27_Key(t, room) ==
    IF tasks[t].kind = "cmd" THEN room.codename = tasks[t].arg
    ELSE room.channel_id = tasks[t].chan

====
